---- MODULE Spec2Model ----
(***************************************************************************)
(* Shipment analytics: the data layer (lib/data/shipments.ts), the         *)
(* pagination helper (parsePositiveInt) and the API handlers built on them.*)
(*                                                                         *)
(* Text is a sequence of one-character strings, so that escaping, lexing   *)
(* and parsing are computed character by character.  A weight is held in   *)
(* units of 0.0002 t, so weight_metric_tonnes * 1000 is a whole number of  *)
(* fifths of a kilogram and the DOUBLE -> INTEGER cast never meets a tie.  *)
(* Where SQL leaves the order of rows open (ties of an ORDER BY, a UNION   *)
(* ALL without ORDER BY) every order is a possible outcome.                *)
(***************************************************************************)
EXTENDS Integers, Sequences, FiniteSets, Bags, TLC

VARIABLES
    file,              \* the rows of data/shipments.json
    table,             \* the shipments table of the engine instance
    instance,          \* the module's engine instance, "null" before the first use
    tableInitialized,  \* the module's flag
    res,               \* the call in progress and what it returned
    previous,          \* the company page a caller kept from its call before
    engine,            \* where calls overlap: the engine instances created, oldest first
    calls              \* where calls overlap: each call of query and where it stands

vars == <<file, table, instance, tableInitialized, res, previous, engine, calls>>

(* ----------------------------- bounds ---------------------------------- *)

\* rows of the pool that a dataset may hold
MaxShipments == 7
\* longest company name a detail request carries
MaxNameLen == 2
\* longest raw query-string value handed to parsePositiveInt
MaxQueryLen == 4
\* rows of the pool a dataset may hold where two pages are compared
MaxPagedShipments == 3

\* rows of the handler pool that a dataset may hold where the handlers meet
\* names and fields they have to cope with
MaxHandlerShipments == 5

\* calls of query under way at the same time
MaxRequests == 2

(* ------------------------- program constants --------------------------- *)

MAX_LIMIT == 1000
DEFAULT_LIMIT == 100
\* LIMIT 5 of the three "top" queries
TOP_LIMIT == 5

(* ------------------------------ helpers -------------------------------- *)

Min(a, b) == IF a < b THEN a ELSE b

RECURSIVE SumOver(_, _)
\* sum of f[x] over the finite set S
SumOver(S, f) ==
    IF S = {} THEN 0
    ELSE LET x == CHOOSE y \in S : TRUE IN f[x] + SumOver(S \ {x}, f)

RECURSIVE SeqsUpTo(_, _)
\* all sequences over S of length at most n
SeqsUpTo(S, n) ==
    IF n = 0 THEN {<<>>}
    ELSE LET shorter == SeqsUpTo(S, n - 1)
         IN  shorter \cup {Append(s, c) : s \in shorter, c \in S}

Range(s) == {s[i] : i \in DOMAIN s}

(* ------------------------------ dataset -------------------------------- *)

NoWebsite == <<>>

Party(name, country, website) ==
    [name |-> name, country |-> country, website |-> website]

CoAX  == Party(<<"a">>, "X", <<"w">>)
CoAX0 == Party(<<"a">>, "X", NoWebsite)
CoAY  == Party(<<"a">>, "Y", NoWebsite)
CoBX  == Party(<<"b">>, "X", <<"v">>)
CoBY  == Party(<<"b">>, "Y", NoWebsite)
CoCX  == Party(<<"c">>, "X", NoWebsite)
CoCY  == Party(<<"c">>, "Y", NoWebsite)
CoQX  == Party(<<"a", "'">>, "X", NoWebsite)

Date(y, m, d) == [year |-> y, month |-> m, day |-> d]

Row(id, imp, exp, commodity, weight, date) ==
    [id |-> id,
     importer_name |-> imp.name, importer_country |-> imp.country,
     importer_website |-> imp.website,
     exporter_name |-> exp.name, exporter_country |-> exp.country,
     exporter_website |-> exp.website,
     commodity_name |-> commodity,
     weight_metric_tonnes |-> weight,
     shipment_date |-> date]

\* The rows data/shipments.json may hold.  Row i is Pool[i]; weights are in
\* units of 0.0002 t (7 is 1.4 kg).
Pool ==
    << Row(1, CoAX,  CoBX,  "c1", 7,  Date(2024, 1, 15)),
       Row(2, CoAX0, CoBY,  "c2", 6,  Date(2024, 1, 20)),
       Row(3, CoBX,  CoAX,  "c3", 12, Date(2024, 2, 1)),
       Row(4, CoAY,  CoCX,  "c4", 8,  Date(2023, 12, 31)),
       Row(5, CoQX,  CoAX,  "c5", 3,  Date(2024, 2, 10)),
       Row(6, CoAX,  CoAX,  "c6", 11, Date(2024, 1, 15)),
       Row(7, CoCY,  CoAX0, "c1", 4,  Date(2023, 1, 5)),
       Row(8, CoBX,  CoAY,  "c2", 9,  Date(2024, 2, 1)),
       Row(9, CoBY,  CoCY,  "c7", 13, Date(2023, 12, 1)) >>

Datasets == SUBSET {Pool[i] : i \in 1 .. Min(MaxShipments, Len(Pool))}

\* SQL NULL: the JSON null of a field that the data file leaves out
Null == "NULL"

CoPX == Party(<<"a", "%">>, "X", NoWebsite)
CoBN == Party(<<"b">>, Null, NoWebsite)

\* The rows data/shipments.json may hold where the endpoints are looked at:
\* a name holds a percent sign or a quote, a party has no country, a shipment
\* has no commodity name
HandlerPool ==
    << Row(1, CoPX, CoAX, "c1", 7,  Date(2024, 1, 15)),
       Row(2, CoAX, CoBN, "c2", 6,  Date(2024, 1, 20)),
       Row(3, CoBX, CoAY, Null, 12, Date(2024, 2, 1)),
       Row(4, CoAX, CoBX, "c1", 8,  Date(2023, 12, 31)),
       Row(5, CoQX, CoPX, "c3", 3,  Date(2024, 2, 10)),
       Row(6, CoCX, CoBN, "c4", 9,  Date(2023, 12, 1)) >>

HandlerDatasets ==
    SUBSET {HandlerPool[i] : i \in 1 .. Min(MaxHandlerShipments, Len(HandlerPool))}

(* ------------------------- the query engine ---------------------------- *)

\* weight_metric_tonnes * 1000 of a row, in fifths of a kilogram
Kg1000(r) == r.weight_metric_tonnes

\* SUM(weight_metric_tonnes * 1000) over a set of rows, in fifths of a kilogram
SumKg1000(rows) == SumOver(rows, [r \in rows |-> Kg1000(r)])

\* CAST(x AS INTEGER) of a DOUBLE x >= 0 given in fifths: the nearest integer
CastInteger(fifths) == (2 * fifths + 5) \div 10

\* SUM(f) over the rows of a bag, each row counted as often as it occurs
SumBag(B, f) ==
    SumOver(BagToSet(B), [x \in BagToSet(B) |-> f[x] * CopiesIn(x, B)])

RECURSIVE OrderByDesc(_, _, _)
\* ORDER BY key DESC: the first n rows of every order of S in which key never
\* rises; rows of equal key come in any order
OrderByDesc(S, key, n) ==
    IF S = {} \/ n = 0 THEN {<<>>}
    ELSE LET top == {x \in S : \A y \in S : key[x] >= key[y]}
         IN  UNION {{<<x>> \o rest : rest \in OrderByDesc(S \ {x}, key, n - 1)}
                    : x \in top}

\* the rows of a relation without ORDER BY, in every order they may come in
AnyOrder(S) == OrderByDesc(S, [x \in S |-> 0], Cardinality(S))

\* LIMIT limit OFFSET offset applied to an ordered result
LimitOffset(rows, limit, offset) ==
    SubSeq(rows, offset + 1, Min(Len(rows), offset + limit))

Digits == <<"0", "1", "2", "3", "4", "5", "6", "7", "8", "9">>

RECURSIVE ToDecimal(_)
\* the decimal text of a natural number
ToDecimal(n) ==
    IF n < 10 THEN <<Digits[n + 1]>>
    ELSE Append(ToDecimal(n \div 10), Digits[(n % 10) + 1])

\* getRowObjectsJson: a BIGINT column (COUNT) comes back as decimal text, an
\* INTEGER column (CAST ... AS INTEGER) as a number
JsonBigInt(n) == ToDecimal(n)

(* ---------------------- lib/data/shipments.ts -------------------------- *)

Key(name, country) == [name |-> name, country |-> country]

\* the importers CTE: one row per (importer_name, importer_country)
importers(t) ==
    {LET rows == {r \in t : r.importer_name = k.name /\ r.importer_country = k.country}
     IN  [name |-> k.name, country |-> k.country,
          shipments |-> Cardinality(rows),
          weight |-> CastInteger(SumKg1000(rows))]
     : k \in {Key(r.importer_name, r.importer_country) : r \in t}}

\* the exporters CTE: one row per (exporter_name, exporter_country)
exporters(t) ==
    {LET rows == {r \in t : r.exporter_name = k.name /\ r.exporter_country = k.country}
     IN  [name |-> k.name, country |-> k.country,
          shipments |-> Cardinality(rows),
          weight |-> CastInteger(SumKg1000(rows))]
     : k \in {Key(r.exporter_name, r.exporter_country) : r \in t}}

\* combined with UNION in place of UNION ALL: equal rows of the two CTEs merge
combinedUnion(t) == SetToBag(importers(t) \cup exporters(t))

\* SELECT * FROM importers UNION ALL SELECT * FROM exporters
combined(t) == SetToBag(importers(t)) (+) SetToBag(exporters(t))

\* CompanyRows without the outer GROUP BY: the rows of the two CTEs as they are
CompanyRowsUngrouped(t) ==
    {[name |-> x.name, country |-> x.country,
      totalShipments |-> x.shipments, totalWeight |-> x.weight]
     : x \in importers(t) \cup exporters(t)}

\* ... GROUP BY name, country with the two SUMs cast to INTEGER
CompanyRows(t) ==
    LET c == combined(t)
        all == BagToSet(c)
    IN  {LET grp == [x \in {y \in all : y.name = k.name /\ y.country = k.country}
                       |-> c[x]]
         IN  [name |-> k.name, country |-> k.country,
              totalShipments |-> SumBag(grp, [x \in DOMAIN grp |-> x.shipments]),
              totalWeight |-> SumBag(grp, [x \in DOMAIN grp |-> x.weight])]
         : k \in {Key(x.name, x.country) : x \in all}}

\* CompaniesOrdered with ORDER BY totalWeight DESC
CompaniesOrderedByWeight(t, n) ==
    LET rows == CompanyRows(t)
    IN  OrderByDesc(rows, [x \in rows |-> x.totalWeight], n)

\* ... ORDER BY totalShipments DESC, the first n rows
CompaniesOrdered(t, n) ==
    LET rows == CompanyRows(t)
    IN  OrderByDesc(rows, [x \in rows |-> x.totalShipments], n)

\* every result transformShipmentsToCompanies may return
transformShipmentsToCompanies(t) == CompaniesOrdered(t, Cardinality(CompanyRows(t)))

\* CountCompanies with the country left out of the DISTINCT
CountCompanyNames(t) ==
    Cardinality({r.importer_name : r \in t} \cup {r.exporter_name : r \in t})

\* SELECT COUNT(*) FROM (SELECT DISTINCT name, country FROM (... UNION ...))
CountCompanies(t) ==
    Cardinality({Key(r.importer_name, r.importer_country) : r \in t}
                \cup {Key(r.exporter_name, r.exporter_country) : r \in t})

\* every result getCompanies({limit, offset}) may return
getCompanies(t, limit, offset) ==
    {[data |-> LimitOffset(rows, limit, offset),
      total |-> JsonBigInt(CountCompanies(t))]
     : rows \in CompaniesOrdered(t, limit + offset)}

DateKey(d) == (d.year * 12 + d.month) * 31 + d.day

\* loadShipments with ORDER BY shipment_date, oldest first
loadShipmentsAscending(t, limit, offset) ==
    {[data |-> LimitOffset(rows, limit, offset),
      total |-> JsonBigInt(Cardinality(t))]
     : rows \in OrderByDesc(t, [r \in t |-> 0 - DateKey(r.shipment_date)], limit + offset)}

\* every result loadShipments({limit, offset}) may return
loadShipments(t, limit, offset) ==
    {[data |-> LimitOffset(rows, limit, offset),
      total |-> JsonBigInt(Cardinality(t))]
     : rows \in OrderByDesc(t, [r \in t |-> DateKey(r.shipment_date)], limit + offset)}

MonthAbbrev ==
    << <<"J", "a", "n">>, <<"F", "e", "b">>, <<"M", "a", "r">>, <<"A", "p", "r">>,
       <<"M", "a", "y">>, <<"J", "u", "n">>, <<"J", "u", "l">>, <<"A", "u", "g">>,
       <<"S", "e", "p">>, <<"O", "c", "t">>, <<"N", "o", "v">>, <<"D", "e", "c">> >>

\* strftime(d, '%b %Y')
StrftimeMonYear(d) == MonthAbbrev[d.month] \o <<" ">> \o ToDecimal(d.year)

\* the order of strftime(d, '%Y-%m') texts, four-digit years
YearMonth(d) == d.year * 12 + d.month

\* MIN(shipment_date) of a set of rows
MinDate(rows) ==
    (CHOOSE r \in rows : \A q \in rows : DateKey(r.shipment_date) <= DateKey(q.shipment_date)).shipment_date

\* commodity_name, CAST(SUM(weight_metric_tonnes * 1000) AS INTEGER) ... GROUP BY
\* commodity_name over the rows given
CommodityKg(rows) ==
    {[commodity |-> c,
      kg |-> CastInteger(SumKg1000({r \in rows : r.commodity_name = c}))]
     : c \in {r.commodity_name : r \in rows}}

\* MonthlyVolume with GROUP BY and ORDER BY on '%m' alone: the months of
\* different years fall into one group
MonthlyVolumeByMonth(t) ==
    LET ms == {r.shipment_date.month : r \in t}
        grp(m) == {r \in t : r.shipment_date.month = m}
        rows == {[m |-> m,
                  month |-> StrftimeMonYear(MinDate(grp(m))),
                  kg |-> CastInteger(SumKg1000(grp(m)))] : m \in ms}
        RECURSIVE Asc(_)
        Asc(S) == IF S = {} THEN <<>>
                  ELSE LET x == CHOOSE y \in S : \A z \in S : y.m <= z.m
                       IN  <<[month |-> x.month, kg |-> x.kg]>> \o Asc(S \ {x})
    IN  Asc(rows)

\* the monthly volume query: one row per year-month, oldest first
MonthlyVolume(t) ==
    LET yms == {YearMonth(r.shipment_date) : r \in t}
        grp(ym) == {r \in t : YearMonth(r.shipment_date) = ym}
        rows == {[ym |-> YearMonth(MinDate(grp(ym))),
                  month |-> StrftimeMonYear(MinDate(grp(ym))),
                  kg |-> CastInteger(SumKg1000(grp(ym)))] : ym \in yms}
        RECURSIVE Asc(_)
        Asc(S) == IF S = {} THEN <<>>
                  ELSE LET x == CHOOSE y \in S : \A z \in S : y.ym <= z.ym
                       IN  <<[month |-> x.month, kg |-> x.kg]>> \o Asc(S \ {x})
    IN  Asc(rows)

\* getCompanyStats without the LIMIT 5 of its commodity query
getCompanyStatsNoLimit(t) ==
    LET groups == CommodityKg(t)
    IN  {[totalImporters |-> JsonBigInt(Cardinality({r.importer_name : r \in t})),
          totalExporters |-> JsonBigInt(Cardinality({r.exporter_name : r \in t})),
          topCommodities |-> top,
          monthlyVolume |-> MonthlyVolume(t)]
         : top \in OrderByDesc(groups, [g \in groups |-> g.kg], Cardinality(groups))}

\* getCompanyStats with mutually exclusive counts: a name that imports is not
\* counted among the exporters
getCompanyStatsExclusive(t) ==
    LET groups == CommodityKg(t)
        imps == {r.importer_name : r \in t}
    IN  {[totalImporters |-> JsonBigInt(Cardinality(imps)),
          totalExporters |-> JsonBigInt(Cardinality({r.exporter_name : r \in t} \ imps)),
          topCommodities |-> top,
          monthlyVolume |-> MonthlyVolume(t)]
         : top \in OrderByDesc(groups, [g \in groups |-> g.kg], TOP_LIMIT)}

\* every result getCompanyStats may return
getCompanyStats(t) ==
    LET groups == CommodityKg(t)
    IN  {[totalImporters |-> JsonBigInt(Cardinality({r.importer_name : r \in t})),
          totalExporters |-> JsonBigInt(Cardinality({r.exporter_name : r \in t})),
          topCommodities |-> top,
          monthlyVolume |-> MonthlyVolume(t)]
         : top \in OrderByDesc(groups, [g \in groups |-> g.kg], TOP_LIMIT)}

RECURSIVE EscapeFirstQuote(_)
\* EscapeQuotes without the g flag: only the first quote is doubled
EscapeFirstQuote(name) ==
    IF name = <<>> THEN <<>>
    ELSE IF Head(name) = "'" THEN <<"'", "'">> \o Tail(name)
    ELSE <<Head(name)>> \o EscapeFirstQuote(Tail(name))

RECURSIVE EscapeBackslash(_)
\* EscapeQuotes with a backslash put before each quote, which the engine
\* reads as an ordinary character
EscapeBackslash(name) ==
    IF name = <<>> THEN <<>>
    ELSE (IF Head(name) = "'" THEN <<"\\", "'">> ELSE <<Head(name)>>)
         \o EscapeBackslash(Tail(name))

RECURSIVE EscapeQuotes(_)
\* companyName.replace(/'/g, "''")
EscapeQuotes(name) ==
    IF name = <<>> THEN <<>>
    ELSE (IF Head(name) = "'" THEN <<"'", "'">> ELSE <<Head(name)>>)
         \o EscapeQuotes(Tail(name))

RECURSIVE LexLiteral(_, _)
\* The engine's reading of the text that follows an opening quote: '' stands
\* for one quote, a lone quote closes the literal.  closed tells whether the
\* literal was closed, rest is the text left after it.
LexLiteral(text, acc) ==
    IF text = <<>> THEN [closed |-> FALSE, value |-> acc, rest |-> <<>>]
    ELSE IF Head(text) # "'" THEN LexLiteral(Tail(text), Append(acc, Head(text)))
    ELSE IF Len(text) >= 2 /\ text[2] = "'"
         THEN LexLiteral(Tail(Tail(text)), Append(acc, "'"))
    ELSE [closed |-> TRUE, value |-> acc, rest |-> Tail(text)]

\* '${escapedName}' as the engine reads it: the interpolated text between the
\* template's two quotes, followed by the template's closing quote
EmbeddedLiteral(escapedName) == LexLiteral(escapedName \o <<"'">>, <<>>)

\* the interpolated name is read as one string literal and nothing else
OneLiteral(lit) == lit.closed /\ lit.rest = <<>>

\* query 1 of getCompanyDetail: the per-role groups of the name
companyStats(t, n) ==
    {LET rows == {r \in t : r.importer_name = n /\ r.importer_country = k[1]
                            /\ r.importer_website = k[2]}
     IN  [role |-> "importer", country |-> k[1], website |-> k[2],
          shipments |-> Cardinality(rows),
          weight |-> CastInteger(SumKg1000(rows))]
     : k \in {<<r.importer_country, r.importer_website>> : r \in {q \in t : q.importer_name = n}}}
    \cup
    {LET rows == {r \in t : r.exporter_name = n /\ r.exporter_country = k[1]
                            /\ r.exporter_website = k[2]}
     IN  [role |-> "exporter", country |-> k[1], website |-> k[2],
          shipments |-> Cardinality(rows),
          weight |-> CastInteger(SumKg1000(rows))]
     : k \in {<<r.exporter_country, r.exporter_website>> : r \in {q \in t : q.exporter_name = n}}}

\* allPartners with UNION in place of UNION ALL: equal rows of the two halves
\* merge before the outer SUM
allPartnersUnion(t, n) ==
    LET asImporter == {q \in t : q.importer_name = n}
        asExporter == {q \in t : q.exporter_name = n}
        exps == {[name |-> k.name, country |-> k.country,
                  shipments |-> Cardinality({r \in asImporter :
                      r.exporter_name = k.name /\ r.exporter_country = k.country})]
                 : k \in {Key(r.exporter_name, r.exporter_country) : r \in asImporter}}
        imps == {[name |-> k.name, country |-> k.country,
                  shipments |-> Cardinality({r \in asExporter :
                      r.importer_name = k.name /\ r.importer_country = k.country})]
                 : k \in {Key(r.importer_name, r.importer_country) : r \in asExporter}}
        all == exps \cup imps
    IN  {[name |-> k.name, country |-> k.country,
          shipments |-> SumOver({y \in all : y.name = k.name /\ y.country = k.country},
                                [y \in all |-> y.shipments])]
         : k \in {Key(x.name, x.country) : x \in all}}

\* query 2 of getCompanyDetail before ORDER BY: the partners of the name
allPartners(t, n) ==
    LET asImporter == {q \in t : q.importer_name = n}
        asExporter == {q \in t : q.exporter_name = n}
        exps == {[name |-> k.name, country |-> k.country,
                  shipments |-> Cardinality({r \in asImporter :
                      r.exporter_name = k.name /\ r.exporter_country = k.country})]
                 : k \in {Key(r.exporter_name, r.exporter_country) : r \in asImporter}}
        imps == {[name |-> k.name, country |-> k.country,
                  shipments |-> Cardinality({r \in asExporter :
                      r.importer_name = k.name /\ r.importer_country = k.country})]
                 : k \in {Key(r.importer_name, r.importer_country) : r \in asExporter}}
        both == SetToBag(exps) (+) SetToBag(imps)
        all == BagToSet(both)
    IN  {LET grp == [x \in {y \in all : y.name = k.name /\ y.country = k.country}
                       |-> both[x]]
         IN  [name |-> k.name, country |-> k.country,
              shipments |-> SumBag(grp, [x \in DOMAIN grp |-> x.shipments])]
         : k \in {Key(x.name, x.country) : x \in all}}

\* query 3 of getCompanyDetail before ORDER BY: the commodities of the name
companyCommodities(t, n) ==
    {[name |-> g.commodity, kg |-> g.kg]
     : g \in CommodityKg({r \in t : r.importer_name = n \/ r.exporter_name = n})}

\* Aggregate with totals and website taken from the first row alone
AggregateFirstRow(stats) ==
    LET isImporter == \E i \in DOMAIN stats : stats[i].role = "importer"
        isExporter == \E i \in DOMAIN stats : stats[i].role = "exporter"
    IN  [role |-> IF isImporter /\ isExporter THEN "both"
                  ELSE IF isImporter THEN "importer" ELSE "exporter",
         totalShipments |-> stats[1].shipments,
         totalWeight |-> stats[1].weight,
         country |-> IF stats[1].country = Null THEN "" ELSE stats[1].country,
         website |-> stats[1].website]

\* Aggregate with the role taken from the first row alone
AggregateFirstRole(stats) ==
    LET withSite == {i \in DOMAIN stats : stats[i].website # NoWebsite}
    IN  [role |-> stats[1].role,
         totalShipments |-> SumOver(DOMAIN stats, [i \in DOMAIN stats |-> stats[i].shipments]),
         totalWeight |-> SumOver(DOMAIN stats, [i \in DOMAIN stats |-> stats[i].weight]),
         country |-> IF stats[1].country = Null THEN "" ELSE stats[1].country,
         website |-> IF withSite = {} THEN NoWebsite
                     ELSE stats[CHOOSE i \in withSite : \A j \in withSite : i <= j].website]

\* role, totals, country and website from the rows of query 1 in the order
\* they came in
Aggregate(stats) ==
    LET isImporter == \E i \in DOMAIN stats : stats[i].role = "importer"
        isExporter == \E i \in DOMAIN stats : stats[i].role = "exporter"
        withSite == {i \in DOMAIN stats : stats[i].website # NoWebsite}
    IN  [role |-> IF isImporter /\ isExporter THEN "both"
                  ELSE IF isImporter THEN "importer" ELSE "exporter",
         totalShipments |-> SumOver(DOMAIN stats, [i \in DOMAIN stats |-> stats[i].shipments]),
         totalWeight |-> SumOver(DOMAIN stats, [i \in DOMAIN stats |-> stats[i].weight]),
         country |-> IF stats[1].country = Null THEN "" ELSE stats[1].country,
         website |-> IF withSite = {} THEN NoWebsite
                     ELSE stats[CHOOSE i \in withSite : \A j \in withSite : i <= j].website]

\* Every outcome of getCompanyDetail(companyName).  A name that the engine
\* does not read as one literal puts text of the name into the statement: the
\* statement then fails, or runs what the name carries.
getCompanyDetail(t, companyName) ==
    LET lit == EmbeddedLiteral(EscapeQuotes(companyName))
        n == lit.value
        partners == allPartners(t, n)
        commodities == companyCommodities(t, n)
    IN  IF ~OneLiteral(lit)
        THEN {[kind |-> "throws", dropped |-> d] : d \in BOOLEAN}
        ELSE IF companyStats(t, n) = {} THEN {[kind |-> "null", dropped |-> FALSE]}
        ELSE {[kind |-> "detail", dropped |-> FALSE,
               detail |-> [name |-> companyName,
                           country |-> a.country, website |-> a.website,
                           role |-> a.role,
                           totalShipments |-> a.totalShipments,
                           totalWeight |-> a.totalWeight,
                           topTradingPartners |-> p,
                           topCommodities |-> c]]
              : a \in {Aggregate(o) : o \in AnyOrder(companyStats(t, n))},
                p \in OrderByDesc(partners, [x \in partners |-> x.shipments], TOP_LIMIT),
                c \in OrderByDesc(commodities, [x \in commodities |-> x.kg], TOP_LIMIT)}

(* --------------------------- lib/utils/api ----------------------------- *)

\* a JavaScript number: NaN, or an integer
NaN == [nan |-> TRUE, val |-> 0]
Num(n) == [nan |-> FALSE, val |-> n]

\* a raw query value: undefined, a string, or an array of strings
Undefined == [kind |-> "undefined", chars |-> <<>>, items |-> <<>>]
Str(chars) == [kind |-> "string", chars |-> chars, items |-> <<>>]
Arr(items) == [kind |-> "array", chars |-> <<>>, items |-> items]

RECURSIVE Join(_)
\* Array.prototype.join(",")
Join(items) ==
    IF items = <<>> THEN <<>>
    ELSE IF Len(items) = 1 THEN items[1]
    ELSE items[1] \o <<",">> \o Join(Tail(items))

\* ToString of a raw query value, as parseInt applies it
JsToString(value) ==
    IF value.kind = "undefined" THEN <<"u", "n", "d", "e", "f", "i", "n", "e", "d">>
    ELSE IF value.kind = "string" THEN value.chars
    ELSE Join(value.items)

IsDigit(c) == \E i \in DOMAIN Digits : Digits[i] = c
DigitValue(c) == (CHOOSE i \in DOMAIN Digits : Digits[i] = c) - 1

RECURSIVE TrimStart(_)
TrimStart(s) == IF s # <<>> /\ Head(s) = " " THEN TrimStart(Tail(s)) ELSE s

RECURSIVE DigitPrefix(_)
\* the longest prefix of s made of decimal digits
DigitPrefix(s) ==
    IF s # <<>> /\ IsDigit(Head(s)) THEN <<Head(s)>> \o DigitPrefix(Tail(s)) ELSE <<>>

RECURSIVE DecimalValue(_)
DecimalValue(ds) ==
    IF ds = <<>> THEN 0
    ELSE 10 * DecimalValue(SubSeq(ds, 1, Len(ds) - 1)) + DigitValue(ds[Len(ds)])

\* parseInt(s, 10): leading blanks are skipped, a sign is read, then the
\* longest run of digits; what follows is ignored; no digit gives NaN
parseInt(s) ==
    LET t == TrimStart(s)
        signed == t # <<>> /\ Head(t) \in {"+", "-"}
        ds == DigitPrefix(IF signed THEN Tail(t) ELSE t)
    IN  IF ds = <<>> THEN NaN
        ELSE IF signed /\ Head(t) = "-" THEN Num(0 - DecimalValue(ds))
        ELSE Num(DecimalValue(ds))

\* parsePositiveInt without the clamp to max
parsePositiveIntNoMax(value, defaultValue, max) ==
    LET parsed == parseInt(JsToString(value))
    IN  IF parsed.nan \/ parsed.val < 0 THEN Num(defaultValue) ELSE parsed

\* max is <<>> when the caller passes none, <<m>> otherwise
parsePositiveInt(value, defaultValue, max) ==
    LET parsed == parseInt(JsToString(value))
    IN  IF parsed.nan \/ parsed.val < 0 THEN Num(defaultValue)
        ELSE IF max # <<>> /\ parsed.val > max[1] THEN Num(max[1])
        ELSE parsed

(* ---------------------- what the handlers rely on ---------------------- *)

HexDigits ==
    <<"0", "1", "2", "3", "4", "5", "6", "7", "8", "9", "a", "b", "c", "d", "e", "f">>

UpperHexDigits ==
    <<"0", "1", "2", "3", "4", "5", "6", "7", "8", "9", "A", "B", "C", "D", "E", "F">>

IsHex(c) == \E i \in DOMAIN HexDigits : c \in {HexDigits[i], UpperHexDigits[i]}
HexValue(c) == (CHOOSE i \in DOMAIN HexDigits : c \in {HexDigits[i], UpperHexDigits[i]}) - 1

\* the characters of the names and requests modelled, by character code
CharCodes ==
    << <<37, "%">>, <<39, "'">>, <<59, ";">>, <<65, "A">>, <<97, "a">>, <<98, "b">> >>

\* String.fromCharCode
FromCharCode(code) ==
    CharCodes[CHOOSE i \in DOMAIN CharCodes : CharCodes[i][1] = code][2]

RECURSIVE decodeURIComponent(_)
\* decodeURIComponent: %hh stands for the character of code hh; a percent
\* sign that two hexadecimal digits do not follow raises URIError (ok is
\* FALSE).  The escapes modelled are those of the characters of CharCodes.
decodeURIComponent(s) ==
    IF s = <<>> THEN [ok |-> TRUE, chars |-> <<>>]
    ELSE IF Head(s) # "%"
         THEN LET rest == decodeURIComponent(Tail(s))
              IN  [ok |-> rest.ok, chars |-> <<Head(s)>> \o rest.chars]
    ELSE IF Len(s) < 3 \/ ~IsHex(s[2]) \/ ~IsHex(s[3])
         THEN [ok |-> FALSE, chars |-> <<>>]
    ELSE LET rest == decodeURIComponent(SubSeq(s, 4, Len(s)))
         IN  [ok |-> rest.ok,
              chars |-> <<FromCharCode(16 * HexValue(s[2]) + HexValue(s[3]))>> \o rest.chars]

\* what a handler's catch block may be handed
NoError == [name |-> "none", message |-> ""]
ZodError == [name |-> "ZodError", message |-> "Invalid input: expected string, received null"]
URIError == [name |-> "URIError", message |-> "URI malformed"]
EngineError == [name |-> "Error", message |-> "IO Error: Cannot open file data/shipments.json"]

\* the message of a handler's last res.status(500).json
FailureMessage(op) ==
    CASE op = "companies" -> "Failed to fetch companies"
      [] op = "stats" -> "Failed to fetch company stats"
      [] op = "detail" -> "Failed to fetch company detail"
      [] op = "shipments" -> "Failed to fetch shipments"

\* Catch with every exception answered 500
CatchAll500(op, error) ==
    [status |-> 500, body |-> [error |-> FailureMessage(op)], logged |-> error]

\* the catch block of the companies, stats and detail handlers: the response
\* it sends and what it logs
Catch(op, error) ==
    IF error.name = "ZodError"
    THEN [status |-> 400, body |-> [error |-> "Invalid response data"], logged |-> error]
    ELSE [status |-> 500, body |-> [error |-> FailureMessage(op)], logged |-> error]

\* z.coerce.number() applied to decimal text
CoerceNumber(text) == DecimalValue(text)

\* z.string()
ZString(v) == v # Null

\* CompaniesResponseSchema.parse: ok tells whether it returned, value is what
\* it returned
CompaniesResponseSchema(result) ==
    [ok |-> \A i \in DOMAIN result.data :
                ZString(result.data[i].name) /\ ZString(result.data[i].country),
     value |-> [data |-> result.data, total |-> CoerceNumber(result.total)]]

\* StatsResponseSchema.parse
StatsResponseSchema(stats) ==
    [ok |-> /\ \A i \in DOMAIN stats.topCommodities :
                  ZString(stats.topCommodities[i].commodity)
            /\ \A i \in DOMAIN stats.monthlyVolume :
                  ZString(stats.monthlyVolume[i].month),
     value |-> [totalImporters |-> CoerceNumber(stats.totalImporters),
                totalExporters |-> CoerceNumber(stats.totalExporters),
                topCommodities |-> stats.topCommodities,
                monthlyVolume |-> stats.monthlyVolume]]

\* CompanyDetailSchema.parse
CompanyDetailSchema(company) ==
    [ok |-> /\ ZString(company.name)
            /\ ZString(company.country)
            /\ company.role \in {"importer", "exporter", "both"}
            /\ \A i \in DOMAIN company.topTradingPartners :
                  /\ ZString(company.topTradingPartners[i].name)
                  /\ ZString(company.topTradingPartners[i].country)
            /\ \A i \in DOMAIN company.topCommodities :
                  ZString(company.topCommodities[i].name),
     value |-> company]

(* ------------------------------ inputs --------------------------------- *)

NameChars == {"a", "b", "'", ";"}

\* the names a caller may ask getCompanyDetail for
Names == SeqsUpTo(NameChars, MaxNameLen)

QueryChars == {"0", "1", "9", "-", " ", "x"}

\* the raw values parsePositiveInt is applied to
QueryValues ==
    {Undefined}
    \cup {Str(s) : s \in SeqsUpTo(QueryChars, MaxQueryLen)}
    \cup {Arr(<<a, b>>) : a \in SeqsUpTo(QueryChars, 1), b \in SeqsUpTo(QueryChars, 1)}

\* the raw limit and offset values a list request carries
QuerySamples ==
    {Undefined, Str(<<"0">>), Str(<<"1">>), Str(<<"2">>), Str(<<"3">>),
     Str(<<"-", "1">>), Str(<<"x">>), Str(<<"1", "0", "0", "1">>),
     Str(<<"2", "x">>), Arr(<<<<"1">>, <<"9">>>>)}

Methods == {"GET", "POST"}

\* the raw name a detail request carries: none, the empty text, a list, every
\* name of Names, a name of the handler pool, and texts with percent signs
NameSamples ==
    {Undefined, Arr(<<<<"a">>, <<"b">>>>)}
    \cup {Str(n) : n \in Names}
    \cup {Str(<<"%">>), Str(<<"a", "%">>), Str(<<"%", "6", "1">>),
          Str(<<"a", "%", "2", "5">>), Str(<<"%", "2", "7">>)}

\* the raw search value a list request carries
SearchSamples == {Undefined, Str(<<"b">>), Str(<<"A">>), Arr(<<<<"a">>, <<"b">>>>)}

\* the raw limit and offset values of a list request that carries a search
SearchPageSamples == {Undefined, Str(<<"1">>)}

(* ------------------------------- state --------------------------------- *)

NoTable == [exists |-> FALSE, rows |-> {}]

Idle == [op |-> "idle"]

\* the shipments table once ensureTableInitialized has returned
AfterInit ==
    IF tableInitialized \/ table.exists THEN table
    ELSE [exists |-> TRUE, rows |-> file]

\* ensureTableInitialized followed by a statement that leaves the table alone
ensureTableInitialized ==
    /\ instance' = IF tableInitialized THEN instance ELSE "db"
    /\ table' = AfterInit
    /\ tableInitialized' = TRUE

\* A statement of the call fails in the engine: read_json_auto cannot read the
\* data file when the table is first built, or a statement fails once
\* ensureTableInitialized has returned
EngineFails ==
    \/ /\ ~tableInitialized
       /\ ~table.exists
       /\ instance' = "db"
       /\ table' = table
       /\ tableInitialized' = FALSE
    \/ ensureTableInitialized

\* `${limit}` or `${offset}` is no natural number: the statement fails
QueryFails(limit, offset) ==
    limit.nan \/ offset.nan \/ limit.val < 0 \/ offset.val < 0

Init ==
    /\ file \in Datasets
    /\ table = NoTable
    /\ instance = "null"
    /\ tableInitialized = FALSE
    /\ res = Idle
    /\ previous = Idle
    /\ engine = <<>>
    /\ calls = <<>>

(* --------------------------- data-layer calls -------------------------- *)

TransformCall ==
    /\ res.op = "idle"
    /\ \E data \in transformShipmentsToCompanies(AfterInit.rows) :
          res' = [op |-> "transformShipmentsToCompanies", data |-> data]
    /\ ensureTableInitialized
    /\ UNCHANGED <<file, previous, engine, calls>>

StatsCall ==
    /\ res.op = "idle"
    /\ \E stats \in getCompanyStats(AfterInit.rows) :
          res' = [op |-> "getCompanyStats", stats |-> stats]
    /\ ensureTableInitialized
    /\ UNCHANGED <<file, previous, engine, calls>>

DetailCall ==
    /\ res.op = "idle"
    /\ \E companyName \in Names :
          \E out \in getCompanyDetail(AfterInit.rows, companyName) :
             /\ res' = [op |-> "getCompanyDetail", name |-> companyName, out |-> out]
             /\ table' = IF out.dropped THEN NoTable ELSE AfterInit
    /\ instance' = IF tableInitialized THEN instance ELSE "db"
    /\ tableInitialized' = TRUE
    /\ UNCHANGED <<file, previous, engine, calls>>

(* ------------------------------ handlers ------------------------------- *)

\* pages/api/companies/index.ts, a request that is not a GET
CompaniesRejected ==
    /\ res.op = "idle"
    /\ \E method \in Methods \ {"GET"} :
          res' = [op |-> "companies", method |-> method, status |-> 405]
    /\ UNCHANGED <<file, table, instance, tableInitialized, previous, engine, calls>>

\* pages/api/companies/index.ts, a GET
CompaniesRequest ==
    /\ res.op = "idle"
    /\ \E rawLimit \in QuerySamples, rawOffset \in QuerySamples :
          LET limit == parsePositiveInt(rawLimit, DEFAULT_LIMIT, <<MAX_LIMIT>>)
              offset == parsePositiveInt(rawOffset, 0, <<>>)
              failed == Catch("companies", EngineError)
              invalid == Catch("companies", ZodError)
          IN  \/ /\ EngineFails \/ (QueryFails(limit, offset) /\ ensureTableInitialized)
                 /\ res' = [op |-> "companies", method |-> "GET",
                            status |-> failed.status,
                            limit |-> limit, offset |-> offset,
                            body |-> failed.body, logged |-> failed.logged]
              \/ /\ ~QueryFails(limit, offset)
                 /\ ensureTableInitialized
                 /\ \E result \in getCompanies(AfterInit.rows, limit.val, offset.val) :
                       LET parsed == CompaniesResponseSchema(result)
                       IN  res' = IF parsed.ok
                                  THEN [op |-> "companies", method |-> "GET",
                                        status |-> 200,
                                        limit |-> limit, offset |-> offset,
                                        result |-> result,
                                        body |-> parsed.value, logged |-> NoError]
                                  ELSE [op |-> "companies", method |-> "GET",
                                        status |-> invalid.status,
                                        limit |-> limit, offset |-> offset,
                                        result |-> result,
                                        body |-> invalid.body, logged |-> invalid.logged]
    /\ UNCHANGED <<file, previous, engine, calls>>

\* pages/api/companies/index.ts in its version with a search parameter, a GET
CompaniesSearchRequest ==
    /\ res.op = "idle"
    /\ \E rawLimit \in SearchPageSamples, rawOffset \in SearchPageSamples,
          rawSearch \in SearchSamples :
          LET limit == parsePositiveInt(rawLimit, DEFAULT_LIMIT, <<MAX_LIMIT>>)
              offset == parsePositiveInt(rawOffset, 0, <<>>)
              search == IF rawSearch.kind = "string" THEN rawSearch ELSE Undefined
              failed == Catch("companies", EngineError)
              invalid == Catch("companies", ZodError)
          IN  \/ /\ EngineFails \/ (QueryFails(limit, offset) /\ ensureTableInitialized)
                 /\ res' = [op |-> "companies", method |-> "GET",
                            status |-> failed.status,
                            limit |-> limit, offset |-> offset, search |-> search,
                            body |-> failed.body, logged |-> failed.logged]
              \/ /\ ~QueryFails(limit, offset)
                 /\ ensureTableInitialized
                 \* getCompanies reads limit and offset of its options and nothing else
                 /\ \E result \in getCompanies(AfterInit.rows, limit.val, offset.val) :
                       LET parsed == CompaniesResponseSchema(result)
                       IN  res' = IF parsed.ok
                                  THEN [op |-> "companies", method |-> "GET",
                                        status |-> 200,
                                        limit |-> limit, offset |-> offset,
                                        search |-> search,
                                        result |-> result,
                                        body |-> parsed.value, logged |-> NoError]
                                  ELSE [op |-> "companies", method |-> "GET",
                                        status |-> invalid.status,
                                        limit |-> limit, offset |-> offset,
                                        search |-> search,
                                        result |-> result,
                                        body |-> invalid.body, logged |-> invalid.logged]
    /\ UNCHANGED <<file, previous, engine, calls>>

\* pages/api/shipments.ts, a request that is not a GET
ShipmentsRejected ==
    /\ res.op = "idle"
    /\ \E method \in Methods \ {"GET"} :
          res' = [op |-> "shipments", method |-> method, status |-> 405]
    /\ UNCHANGED <<file, table, instance, tableInitialized, previous, engine, calls>>

\* pages/api/shipments.ts, a GET: the result is sent as loadShipments gave
\* it, and every exception is answered 500
ShipmentsRequest ==
    /\ res.op = "idle"
    /\ \E rawLimit \in QuerySamples, rawOffset \in QuerySamples :
          LET limit == parsePositiveInt(rawLimit, DEFAULT_LIMIT, <<MAX_LIMIT>>)
              offset == parsePositiveInt(rawOffset, 0, <<>>)
          IN  \/ /\ EngineFails \/ (QueryFails(limit, offset) /\ ensureTableInitialized)
                 /\ res' = [op |-> "shipments", method |-> "GET", status |-> 500,
                            limit |-> limit, offset |-> offset,
                            body |-> [error |-> FailureMessage("shipments")],
                            logged |-> EngineError]
              \/ /\ ~QueryFails(limit, offset)
                 /\ ensureTableInitialized
                 /\ \E result \in loadShipments(AfterInit.rows, limit.val, offset.val) :
                       res' = [op |-> "shipments", method |-> "GET", status |-> 200,
                               limit |-> limit, offset |-> offset,
                               result |-> result, body |-> result,
                               logged |-> NoError]
    /\ UNCHANGED <<file, previous, engine, calls>>

\* pages/api/companies/stats.ts, a request that is not a GET
StatsRejected ==
    /\ res.op = "idle"
    /\ \E method \in Methods \ {"GET"} :
          res' = [op |-> "stats", method |-> method, status |-> 405]
    /\ UNCHANGED <<file, table, instance, tableInitialized, previous, engine, calls>>

\* pages/api/companies/stats.ts, a GET
StatsRequest ==
    /\ res.op = "idle"
    /\ LET failed == Catch("stats", EngineError)
           invalid == Catch("stats", ZodError)
       IN  \/ /\ EngineFails
              /\ res' = [op |-> "stats", method |-> "GET", status |-> failed.status,
                         body |-> failed.body, logged |-> failed.logged]
           \/ /\ ensureTableInitialized
              /\ \E stats \in getCompanyStats(AfterInit.rows) :
                    LET parsed == StatsResponseSchema(stats)
                    IN  res' = IF parsed.ok
                               THEN [op |-> "stats", method |-> "GET", status |-> 200,
                                     result |-> stats,
                                     body |-> parsed.value, logged |-> NoError]
                               ELSE [op |-> "stats", method |-> "GET",
                                     status |-> invalid.status,
                                     result |-> stats,
                                     body |-> invalid.body, logged |-> invalid.logged]
    /\ UNCHANGED <<file, previous, engine, calls>>

\* DetailRejected with the method looked at after the first statement of the
\* lookup has run
DetailRejectedLate ==
    /\ res.op = "idle"
    /\ \E method \in Methods \ {"GET"}, name \in NameSamples :
          res' = [op |-> "detail", method |-> method, status |-> 405, name |-> name]
    /\ ensureTableInitialized
    /\ UNCHANGED <<file, previous, engine, calls>>

\* pages/api/companies/[name].ts, a request that is not a GET
DetailRejected ==
    /\ res.op = "idle"
    /\ \E method \in Methods \ {"GET"}, name \in NameSamples :
          res' = [op |-> "detail", method |-> method, status |-> 405, name |-> name]
    /\ UNCHANGED <<file, table, instance, tableInitialized, previous, engine, calls>>

\* NameMissing that takes everything but undefined for a name
NameUndefined(name) == name.kind = "undefined"

\* !name || typeof name !== 'string'
NameMissing(name) == name.kind # "string" \/ name.chars = <<>>

\* pages/api/companies/[name].ts, a GET
DetailRequest ==
    /\ res.op = "idle"
    /\ \E name \in NameSamples :
          LET companyName == decodeURIComponent(JsToString(name))
              malformed == Catch("detail", URIError)
              failed == Catch("detail", EngineError)
              invalid == Catch("detail", ZodError)
          IN  IF NameMissing(name)
              THEN /\ res' = [op |-> "detail", method |-> "GET", status |-> 400,
                              name |-> name,
                              body |-> [error |-> "Company name is required"],
                              logged |-> NoError]
                   /\ UNCHANGED <<table, instance, tableInitialized>>
              ELSE IF ~companyName.ok
              THEN /\ res' = [op |-> "detail", method |-> "GET",
                              status |-> malformed.status, name |-> name,
                              body |-> malformed.body, logged |-> malformed.logged]
                   /\ UNCHANGED <<table, instance, tableInitialized>>
              ELSE \/ /\ EngineFails
                      /\ res' = [op |-> "detail", method |-> "GET",
                                 status |-> failed.status, name |-> name,
                                 body |-> failed.body, logged |-> failed.logged]
                   \/ \E out \in getCompanyDetail(AfterInit.rows, companyName.chars) :
                         /\ table' = IF out.dropped THEN NoTable ELSE AfterInit
                         /\ instance' = IF tableInitialized THEN instance ELSE "db"
                         /\ tableInitialized' = TRUE
                         /\ res' =
                              IF out.kind = "throws"
                              THEN [op |-> "detail", method |-> "GET",
                                    status |-> failed.status, name |-> name,
                                    body |-> failed.body, logged |-> failed.logged]
                              ELSE IF out.kind = "null"
                              THEN [op |-> "detail", method |-> "GET", status |-> 404,
                                    name |-> name,
                                    body |-> [error |-> "Company not found"],
                                    logged |-> NoError]
                              ELSE IF CompanyDetailSchema(out.detail).ok
                              THEN [op |-> "detail", method |-> "GET", status |-> 200,
                                    name |-> name, result |-> out.detail,
                                    body |-> CompanyDetailSchema(out.detail).value,
                                    logged |-> NoError]
                              ELSE [op |-> "detail", method |-> "GET",
                                    status |-> invalid.status,
                                    name |-> name, result |-> out.detail,
                                    body |-> invalid.body, logged |-> invalid.logged]
    /\ UNCHANGED <<file, previous, engine, calls>>

\* the caller has the result; the next call may start
Return ==
    /\ res.op # "idle"
    /\ res' = Idle
    /\ UNCHANGED <<file, table, instance, tableInitialized, previous, engine, calls>>

Next ==
    \/ TransformCall
    \/ StatsCall
    \/ DetailCall
    \/ CompaniesRejected
    \/ CompaniesRequest
    \/ ShipmentsRejected
    \/ ShipmentsRequest
    \/ Return

Spec == Init /\ [][Next]_vars

(* ------- the four endpoints on datasets with irregular fields --------- *)

InitHandlers ==
    /\ file \in HandlerDatasets
    /\ table = NoTable
    /\ instance = "null"
    /\ tableInitialized = FALSE
    /\ res = Idle
    /\ previous = Idle
    /\ engine = <<>>
    /\ calls = <<>>

\* the four endpoints, and nothing that goes past them to the data layer
NextHandlers ==
    \/ CompaniesRejected
    \/ CompaniesRequest
    \/ CompaniesSearchRequest
    \/ ShipmentsRejected
    \/ ShipmentsRequest
    \/ StatsRejected
    \/ StatsRequest
    \/ DetailRejected
    \/ DetailRequest
    \/ Return

SpecHandlers == InitHandlers /\ [][NextHandlers]_vars

(* ------------------- two pages of the company list -------------------- *)

PagedDatasets == SUBSET {Pool[i] : i \in 1 .. Min(MaxPagedShipments, Len(Pool))}

InitPages ==
    /\ file \in PagedDatasets
    /\ table = NoTable
    /\ instance = "null"
    /\ tableInitialized = FALSE
    /\ res = Idle
    /\ previous = Idle
    /\ engine = <<>>
    /\ calls = <<>>

\* the caller keeps the page it got (page1 of the pagination tests) and goes on
\* to ask for another
KeepPage ==
    /\ res.op = "companies"
    /\ res.status = 200
    /\ previous' = res
    /\ res' = Idle
    /\ UNCHANGED <<file, table, instance, tableInitialized, engine, calls>>

NextPages == CompaniesRequest \/ KeepPage \/ Return

SpecPages == InitPages /\ [][NextPages]_vars

(* ----------------- parsePositiveInt on its own ------------------------- *)

InitParse ==
    /\ file = {}
    /\ table = NoTable
    /\ instance = "null"
    /\ tableInitialized = FALSE
    /\ res = Idle
    /\ previous = Idle
    /\ engine = <<>>
    /\ calls = <<>>

\* parsePositiveInt as the handlers call it: for limit and for offset
ParseCall ==
    /\ res.op = "idle"
    /\ \E value \in QueryValues, arg \in {<<DEFAULT_LIMIT, <<MAX_LIMIT>>>>, <<0, <<>>>>} :
          res' = [op |-> "parsePositiveInt", value |-> value,
                  defaultValue |-> arg[1], max |-> arg[2],
                  result |-> parsePositiveInt(value, arg[1], arg[2])]
    /\ UNCHANGED <<file, table, instance, tableInitialized, previous, engine, calls>>

NextParse == ParseCall \/ Return

SpecParse == InitParse /\ [][NextParse]_vars

(* ---------------- calls of query that run at the same time ------------- *)

\* Node runs a call up to its next await and then any other call that is
\* ready: each action below is one such stretch of one call.  A call is
\* query('SELECT COUNT(*) as total FROM shipments'), the first statement of
\* loadShipments.

Requests == 1 .. MaxRequests

\* the instances DuckDBInstance.create(':memory:') returns, in the order of
\* their creation
InstanceNames == <<"db", "db2", "db3", "db4">>

NewInstance(name) == [name |-> name, table |-> NoTable, loads |-> 0, open |-> 0]

\* the place of instance db among the instances created
Ix(eng, db) == CHOOSE k \in DOMAIN eng : eng[k].name = db

\* the shipments table of the instance the module holds
TableSeen(eng, inst) == IF inst = "null" THEN NoTable ELSE eng[Ix(eng, inst)].table

\* a call that has not begun
NotStarted == [pc |-> "start", db |-> "null", connection |-> FALSE,
               out |-> [kind |-> "pending"]]

InitConcurrent ==
    /\ file \in PagedDatasets
    /\ table = NoTable
    /\ instance = "null"
    /\ tableInitialized = FALSE
    /\ res = Idle
    /\ previous = Idle
    /\ engine = <<>>
    /\ calls = [i \in Requests |-> NotStarted]

\* query up to its first await: ensureTableInitialized looks at the flag, and
\* getInstance at the instance
QueryStart(i) ==
    /\ calls[i].pc = "start"
    /\ calls' = [calls EXCEPT ![i] =
                    IF tableInitialized
                    THEN [@ EXCEPT !.pc = "query.getInstance"]
                    ELSE IF instance = "null"
                    THEN [@ EXCEPT !.pc = "ensure.create"]
                    ELSE [@ EXCEPT !.pc = "ensure.connect", !.db = instance]]
    /\ UNCHANGED <<file, table, instance, tableInitialized, res, previous, engine>>

\* instance = await DuckDBInstance.create(':memory:'); return instance
CreateResolves(i) ==
    /\ calls[i].pc \in {"ensure.create", "query.create"}
    /\ LET db == InstanceNames[Len(engine) + 1]
       IN  /\ engine' = Append(engine, NewInstance(db))
           /\ instance' = db
           /\ table' = NoTable
           /\ calls' = [calls EXCEPT ![i] =
                           [@ EXCEPT !.db = db,
                                     !.pc = IF @ = "ensure.create" THEN "ensure.connect"
                                            ELSE "query.connect"]]
    /\ UNCHANGED <<file, tableInitialized, res, previous>>

\* connection = await db.connect(), in ensureTableInitialized and in query;
\* the call goes on to send its statement
Connect(i) ==
    /\ calls[i].pc \in {"ensure.connect", "query.connect"}
    /\ engine' = [engine EXCEPT ![Ix(engine, calls[i].db)].open = @ + 1]
    /\ calls' = [calls EXCEPT ![i] =
                    [@ EXCEPT !.connection = TRUE,
                              !.pc = IF @ = "ensure.connect" THEN "ensure.createTable"
                                     ELSE "query.run"]]
    /\ UNCHANGED <<file, table, instance, tableInitialized, res, previous>>

\* CREATE TABLE IF NOT EXISTS shipments AS SELECT * FROM read_json_auto(..)
\* has run on the call's instance
CreateTable(i) ==
    /\ calls[i].pc = "ensure.createTable"
    /\ LET k == Ix(engine, calls[i].db)
       IN  engine' = IF engine[k].table.exists THEN engine
                     ELSE [engine EXCEPT ![k].table = [exists |-> TRUE, rows |-> file],
                                         ![k].loads = @ + 1]
    /\ table' = TableSeen(engine', instance)
    /\ calls' = [calls EXCEPT ![i].pc = "ensure.createIndex"]
    /\ UNCHANGED <<file, instance, tableInitialized, res, previous>>

\* read_json_auto cannot read the data file: the statement throws and the
\* call ends with the error
CreateTableFails(i) ==
    /\ calls[i].pc = "ensure.createTable"
    /\ ~engine[Ix(engine, calls[i].db)].table.exists
    /\ calls' = [calls EXCEPT ![i] =
                    [@ EXCEPT !.pc = "done",
                              !.out = [kind |-> "error", from |-> "read_json_auto"]]]
    /\ UNCHANGED <<file, table, instance, tableInitialized, res, previous, engine>>

\* the three CREATE INDEX IF NOT EXISTS have run; connection.closeSync();
\* tableInitialized = true
CreateIndexes(i) ==
    /\ calls[i].pc = "ensure.createIndex"
    /\ engine' = [engine EXCEPT ![Ix(engine, calls[i].db)].open = @ - 1]
    /\ tableInitialized' = TRUE
    /\ calls' = [calls EXCEPT ![i] =
                    [@ EXCEPT !.connection = FALSE, !.pc = "query.getInstance"]]
    /\ UNCHANGED <<file, table, instance, res, previous>>

\* const db = await getInstance(), in query
QueryGetInstance(i) ==
    /\ calls[i].pc = "query.getInstance"
    /\ calls' = [calls EXCEPT ![i] =
                    IF instance = "null"
                    THEN [@ EXCEPT !.pc = "query.create"]
                    ELSE [@ EXCEPT !.pc = "query.connect", !.db = instance]]
    /\ UNCHANGED <<file, table, instance, tableInitialized, res, previous, engine>>

\* connection.runAndReadAll(sql) has run on the call's instance: the rows are
\* read, the connection is closed and the rows returned; or the statement
\* throws, because the instance has no shipments table
RunAndReadAll(i) ==
    /\ calls[i].pc = "query.run"
    /\ LET k == Ix(engine, calls[i].db)
       IN  IF engine[k].table.exists
           THEN /\ engine' = [engine EXCEPT ![k].open = @ - 1]
                /\ calls' = [calls EXCEPT ![i] =
                               [@ EXCEPT !.pc = "done", !.connection = FALSE,
                                         !.out = [kind |-> "rows",
                                                  total |-> JsonBigInt(Cardinality(
                                                               engine[k].table.rows))]]]
           ELSE /\ engine' = engine
                /\ calls' = [calls EXCEPT ![i] =
                               [@ EXCEPT !.pc = "done",
                                         !.out = [kind |-> "error", from |-> "catalog"]]]
    /\ UNCHANGED <<file, table, instance, tableInitialized, res, previous>>

NextConcurrent ==
    \E i \in Requests :
       \/ QueryStart(i)
       \/ CreateResolves(i)
       \/ Connect(i)
       \/ CreateTable(i)
       \/ CreateTableFails(i)
       \/ CreateIndexes(i)
       \/ QueryGetInstance(i)
       \/ RunAndReadAll(i)

SpecConcurrent == InitConcurrent /\ [][NextConcurrent]_vars

(* ------------------------------ claims --------------------------------- *)

\* the (name, country) pairs of the dataset, in either role
Pairs(t) ==
    {Key(r.importer_name, r.importer_country) : r \in t}
    \cup {Key(r.exporter_name, r.exporter_country) : r \in t}

AsImporter(t, k) == {r \in t : r.importer_name = k.name /\ r.importer_country = k.country}
AsExporter(t, k) == {r \in t : r.exporter_name = k.name /\ r.exporter_country = k.country}

\* the company rows a finished call carries, if it carries a company list
ListedCompanies ==
    IF res.op = "transformShipmentsToCompanies" THEN res.data
    ELSE IF res.op = "companies" /\ res.status = 200 THEN res.result.data
    ELSE <<>>

\* C1: the unpaginated company listing (transformShipmentsToCompanies) never
\* holds two rows with the same (name, country) pair, whatever the dataset,
\* also for companies that are importer and exporter.
C1_UniquePairs ==
    res.op = "transformShipmentsToCompanies" =>
        \A i, j \in DOMAIN res.data :
            i # j => Key(res.data[i].name, res.data[i].country)
                     # Key(res.data[j].name, res.data[j].country)

\* C1 witness: a listing with several rows, one of them a company that is
\* importer of one shipment and exporter of another.
C1_Witness ==
    /\ res.op = "transformShipmentsToCompanies"
    /\ Len(res.data) >= 3
    /\ \E i \in DOMAIN res.data :
          LET k == Key(res.data[i].name, res.data[i].country)
          IN  AsImporter(file, k) # {} /\ AsExporter(file, k) # {}
              /\ AsImporter(file, k) # AsExporter(file, k)

\* C2: every row of a company list has totalShipments = shipments with the
\* pair as importer + shipments with the pair as exporter, and totalWeight =
\* the pair's importer-role kg total + its exporter-role kg total.
C2_Totals ==
    \A i \in DOMAIN ListedCompanies :
        LET c == ListedCompanies[i]
            k == Key(c.name, c.country)
        IN  /\ c.totalShipments
                  = Cardinality(AsImporter(file, k)) + Cardinality(AsExporter(file, k))
            /\ c.totalWeight
                  = CastInteger(SumKg1000(AsImporter(file, k)))
                    + CastInteger(SumKg1000(AsExporter(file, k)))

\* C2 witness: a listed company whose importer-role and exporter-role groups
\* have the same count and the same kg (a shipment it sends to itself).
C2_Witness ==
    \E i \in DOMAIN ListedCompanies :
        LET c == ListedCompanies[i]
            k == Key(c.name, c.country)
        IN  /\ AsImporter(file, k) # {}
            /\ AsImporter(file, k) = AsExporter(file, k)
            /\ c.totalShipments = 2 * Cardinality(AsImporter(file, k))

\* a GET of one of the two list endpoints has been handled
ListRequestDone == res.op \in {"companies", "shipments"} /\ res.method = "GET"

\* C3: for every list request the limit handed to the data layer lies in
\* 0 .. 1000 and the data array returned has at most that many elements.
C3_LimitBound ==
    ListRequestDone =>
        /\ ~res.limit.nan
        /\ res.limit.val >= 0
        /\ res.limit.val <= 1000
        /\ res.status = 200 => Len(res.body.data) <= res.limit.val

\* C3 witness: a request for shipments whose limit, between 1 and the number
\* of rows, cut the list to exactly that many rows.
C3_Witness ==
    /\ ListRequestDone
    /\ res.op = "shipments"
    /\ res.status = 200
    /\ res.limit.val > 0
    /\ res.limit.val < Cardinality(file)
    /\ Len(res.body.data) = res.limit.val

\* text is an optional sign followed by decimal digits only, blanks around it
\* aside: what Number() takes for an integer
RECURSIVE TrimEnd(_)
TrimEnd(s) == IF s # <<>> /\ s[Len(s)] = " " THEN TrimEnd(SubSeq(s, 1, Len(s) - 1)) ELSE s

IsIntegerText(s) ==
    LET t == TrimEnd(TrimStart(s))
        u == IF t # <<>> /\ Head(t) \in {"+", "-"} THEN Tail(t) ELSE t
    IN  u # <<>> /\ \A i \in DOMAIN u : IsDigit(u[i])

IntegerOfText(s) ==
    LET t == TrimEnd(TrimStart(s))
        u == IF Head(t) \in {"+", "-"} THEN Tail(t) ELSE t
    IN  IF Head(t) = "-" THEN 0 - DecimalValue(u) ELSE DecimalValue(u)

\* C4 as stated: parsePositiveInt returns the default for every missing,
\* non-numeric or negative value, the maximum for every value above it, the
\* value itself otherwise, and never a negative number or NaN.
C4_AsStated ==
    res.op = "parsePositiveInt" =>
        LET v == res.value
            numeric == v.kind = "string" /\ IsIntegerText(v.chars)
        IN  /\ ~res.result.nan
            /\ res.result.val >= 0
            /\ IF ~numeric \/ IntegerOfText(v.chars) < 0
               THEN res.result.val = res.defaultValue
               ELSE IF res.max # <<>> /\ IntegerOfText(v.chars) > res.max[1]
               THEN res.result.val = res.max[1]
               ELSE res.result.val = IntegerOfText(v.chars)

\* C5: whatever limit and offset, the page getCompanies returns is sorted by
\* totalShipments, largest first.
C5_PageSorted ==
    res.op = "companies" /\ res.status = 200 =>
        \A i, j \in DOMAIN res.result.data :
            i < j => res.result.data[i].totalShipments >= res.result.data[j].totalShipments

\* C5 witness: a page at an offset above 0 with rows of different totals.
C5_Witness ==
    /\ res.op = "companies"
    /\ res.status = 200
    /\ res.offset.val > 0
    /\ Len(res.result.data) >= 2
    /\ res.result.data[1].totalShipments > res.result.data[Len(res.result.data)].totalShipments

\* C6: the total getCompanies returns is the number of distinct (name, country)
\* pairs of the dataset in either role, whatever limit and offset, and is the
\* number of rows of the unpaginated listing.
C6_Total ==
    res.op = "companies" /\ res.status = 200 =>
        /\ res.result.total = ToDecimal(Cardinality(Pairs(file)))
        /\ res.body.total = Cardinality(Pairs(file))
        /\ res.body.total = Cardinality(CompanyRows(file))

\* C6 witness: a page that holds fewer rows than total, asked for at an offset
\* above 0, of a dataset in which a name occurs under two countries.
C6_Witness ==
    /\ res.op = "companies"
    /\ res.status = 200
    /\ res.offset.val > 0
    /\ Len(res.result.data) > 0
    /\ res.body.total > Len(res.result.data) + res.offset.val
    /\ \E k1, k2 \in Pairs(file) : k1.name = k2.name /\ k1.country # k2.country

\* the name asked for occurs in the dataset as importer, as exporter
IsImporterName(t, n) == \E r \in t : r.importer_name = n
IsExporterName(t, n) == \E r \in t : r.exporter_name = n

\* C7: for every name, also one with quote characters, that no shipment has as
\* importer_name or exporter_name, getCompanyDetail returns null, raises
\* nothing and leaves the shipments table as it was loaded.
C7_NullForUnknown ==
    (/\ res.op = "getCompanyDetail"
     /\ ~IsImporterName(file, res.name)
     /\ ~IsExporterName(file, res.name))
    => /\ res.out.kind = "null"
       /\ table = [exists |-> TRUE, rows |-> file]

\* C7 witness: null was returned for a name of two quote characters while a
\* company of the dataset has a quote in its name.
C7_Witness ==
    /\ res.op = "getCompanyDetail"
    /\ res.name = <<"'", "'">>
    /\ res.out.kind = "null"
    /\ \E r \in file : "'" \in Range(r.importer_name)

\* C8: whenever getCompanyDetail returns a record, role is "both" exactly when
\* the name is importer_name of some shipment and exporter_name of some
\* shipment, "importer" when it is only importer, "exporter" when only exporter.
C8_Role ==
    res.op = "getCompanyDetail" /\ res.out.kind = "detail" =>
        LET imp == IsImporterName(file, res.name)
            exp == IsExporterName(file, res.name)
            role == res.out.detail.role
        IN  /\ role = "both" <=> imp /\ exp
            /\ role = "importer" <=> imp /\ ~exp
            /\ role = "exporter" <=> exp /\ ~imp

\* C8 witness: role "both" for a name that is never importer and exporter
\* under the same country.
C8_Witness ==
    /\ res.op = "getCompanyDetail"
    /\ res.out.kind = "detail"
    /\ res.out.detail.role = "both"
    /\ \A r, q \in file :
          r.importer_name = res.name /\ q.exporter_name = res.name
              => r.importer_country # q.exporter_country

\* a page of the company list asked for with limit L and offset o, served
IsPage(r, L, o) ==
    /\ r.op = "companies"
    /\ r.status = 200
    /\ r.limit.val = L
    /\ r.offset.val = o

PageNames(r) == {r.result.data[i].name : i \in DOMAIN r.result.data}

SortedByKg(list) ==
    \A i, j \in DOMAIN list : i < j => list[i].kg >= list[j].kg

SortedByShipments(list) ==
    \A i, j \in DOMAIN list : i < j => list[i].shipments >= list[j].shipments

\* C10: every top list of getCompanyStats and getCompanyDetail (stats
\* topCommodities, detail topTradingPartners, detail topCommodities) has at
\* most 5 entries and is sorted largest first by its metric: kg for
\* commodities, shipments for partners.
C10_TopLists ==
    /\ res.op = "getCompanyStats" =>
          /\ Len(res.stats.topCommodities) <= 5
          /\ SortedByKg(res.stats.topCommodities)
    /\ res.op = "getCompanyDetail" /\ res.out.kind = "detail" =>
          /\ Len(res.out.detail.topTradingPartners) <= 5
          /\ SortedByShipments(res.out.detail.topTradingPartners)
          /\ Len(res.out.detail.topCommodities) <= 5
          /\ SortedByKg(res.out.detail.topCommodities)

\* C10 witness: a detail whose company has more than 5 partners and more than
\* 5 commodities, with 5 of each returned.
C10_Witness ==
    /\ res.op = "getCompanyDetail"
    /\ res.out.kind = "detail"
    /\ Cardinality(allPartners(file, res.name)) > 5
    /\ Cardinality(companyCommodities(file, res.name)) > 5
    /\ Len(res.out.detail.topTradingPartners) = 5
    /\ Len(res.out.detail.topCommodities) = 5

\* the calendar year-months in which the dataset has a shipment
YearMonthsOf(t) == {<<r.shipment_date.year, r.shipment_date.month>> : r \in t}

\* year-month a lies before year-month b
Earlier(a, b) == a[1] < b[1] \/ (a[1] = b[1] /\ a[2] < b[2])

\* the 'Mon YYYY' name of a year-month
MonLabel(ym) == MonthAbbrev[ym[2]] \o <<" ">> \o ToDecimal(ym[1])

\* C11: monthlyVolume of getCompanyStats has exactly one entry per distinct
\* calendar year-month of the dataset, in strictly increasing chronological
\* order, and each entry is labelled 'Mon YYYY' after its own year-month.
C11_MonthlyVolume ==
    res.op = "getCompanyStats" =>
        LET mv == res.stats.monthlyVolume
            yms == YearMonthsOf(file)
        IN  /\ Len(mv) = Cardinality(yms)
            /\ \E f \in [DOMAIN mv -> yms] :
                  /\ \A ym \in yms : \E i \in DOMAIN mv : f[i] = ym
                  /\ \A i, j \in DOMAIN mv : i < j => Earlier(f[i], f[j])
                  /\ \A i \in DOMAIN mv : mv[i].month = MonLabel(f[i])

\* C11 witness: a series of at least three months that holds the same month
\* of two different years (Jan 2023 and Jan 2024) and a month with several
\* shipments.
C11_Witness ==
    /\ res.op = "getCompanyStats"
    /\ Len(res.stats.monthlyVolume) >= 3
    /\ \E a, b \in YearMonthsOf(file) : a[2] = b[2] /\ a[1] # b[1]
    /\ \E r, q \in file : r # q /\ r.shipment_date.year = q.shipment_date.year
                          /\ r.shipment_date.month = q.shipment_date.month

\* every name a shipment of the dataset carries, in either role
NamesOf(t) == {r.importer_name : r \in t} \cup {r.exporter_name : r \in t}

\* C12: getCompanyStats returns as totalImporters the number of distinct
\* importer names and as totalExporters the number of distinct exporter names
\* of the dataset (each as the decimal text the engine gives for a count); a
\* name in both roles is counted in both.
C12_DistinctCounts ==
    res.op = "getCompanyStats" =>
        /\ res.stats.totalImporters
              = ToDecimal(Cardinality({n \in NamesOf(file) : IsImporterName(file, n)}))
        /\ res.stats.totalExporters
              = ToDecimal(Cardinality({n \in NamesOf(file) : IsExporterName(file, n)}))

\* C12 witness: statistics of a dataset in which a name is importer of one
\* shipment and exporter of another, and one name is importer under two
\* countries; the two counts add up to more than the number of names.
C12_Witness ==
    /\ res.op = "getCompanyStats"
    /\ \E r, q \in file : r # q /\ r.importer_name = q.exporter_name
    /\ \E r, q \in file : r.importer_name = q.importer_name
                          /\ r.importer_country # q.importer_country
    /\ DecimalValue(res.stats.totalImporters) + DecimalValue(res.stats.totalExporters)
          > Cardinality(NamesOf(file))

\* date a is not before date b
NotBefore(a, b) ==
    \/ a.year > b.year
    \/ a.year = b.year /\ a.month > b.month
    \/ a.year = b.year /\ a.month = b.month /\ a.day >= b.day

\* C13: the page loadShipments returns for limit and offset is in
\* non-increasing shipment_date order, is cut from all rows of the dataset
\* (distinct rows of the dataset, as many as limit and offset leave, none
\* newer than the page left out beyond the offset), and its total is the
\* number of rows of the dataset whatever limit and offset are.
C13_ShipmentsPage ==
    res.op = "shipments" /\ res.status = 200 =>
        LET data == res.result.data
            n == Cardinality(file)
            left == IF n > res.offset.val THEN n - res.offset.val ELSE 0
            onPage == {data[i] : i \in DOMAIN data}
        IN  /\ \A i, j \in DOMAIN data :
                  i < j => NotBefore(data[i].shipment_date, data[j].shipment_date)
            /\ onPage \subseteq file
            /\ \A i, j \in DOMAIN data : i # j => data[i] # data[j]
            /\ Len(data) = Min(res.limit.val, left)
            /\ data # <<>> =>
                  Cardinality({r \in file \ onPage :
                      ~NotBefore(data[1].shipment_date, r.shipment_date)}) <= res.offset.val
            /\ res.result.total = ToDecimal(n)

\* C13 witness: a page at an offset above 0 that holds rows of different
\* dates, cut from a dataset with two shipments of one date and with more
\* rows than offset and page together.
C13_Witness ==
    /\ res.op = "shipments"
    /\ res.status = 200
    /\ res.offset.val > 0
    /\ Len(res.result.data) >= 2
    /\ res.result.data[1].shipment_date # res.result.data[Len(res.result.data)].shipment_date
    /\ \E r, q \in file : r # q /\ r.shipment_date = q.shipment_date
    /\ DecimalValue(res.result.total) > res.offset.val + Len(res.result.data)

Endpoints == {"companies", "shipments", "stats", "detail"}

\* C14: at each of the four endpoints a request whose method is not GET is
\* answered 405 with no body, and handling it leaves the engine instance, the
\* shipments table and the initialization flag as they were: nothing of the
\* data layer has run, whatever the request carries.
C14_RejectedWithoutDataLayer ==
    [][(res'.op \in Endpoints /\ res'.method # "GET")
          => /\ res'.status = 405
             /\ "body" \notin DOMAIN res'
             /\ UNCHANGED <<table, instance, tableInitialized>>]_vars

\* C14 witness: a detail request that is not a GET, for a name of the dataset,
\* answered 405 while the engine has never been used.
C14_Witness ==
    /\ res.op = "detail"
    /\ res.method # "GET"
    /\ res.status = 405
    /\ res.name.kind = "string"
    /\ res.name.chars \in NamesOf(file)
    /\ instance = "null"
    /\ ~tableInitialized
    /\ ~table.exists

\* a detail request that got past the method and name checks, on a run in
\* which the engine did not fail and every row sent had its fields
DetailLookedUp ==
    /\ res.op = "detail"
    /\ res.method = "GET"
    /\ res.name.kind = "string"
    /\ res.name.chars # <<>>
    /\ res.logged.name \notin {"Error", "ZodError"}

\* C15 as stated: a GET of the detail endpoint for a name that no shipment has
\* as importer_name or exporter_name is answered 404 with the error body,
\* never 500 and never with company data.
C15_AsStated ==
    DetailLookedUp /\ res.name.chars \notin NamesOf(file)
        => /\ res.status = 404
           /\ res.body = [error |-> "Company not found"]

\* C16 as stated: a GET of the detail endpoint whose name parameter is a name
\* of the dataset is answered 200 and the body's name is the name supplied.
C16_AsStated ==
    DetailLookedUp /\ res.name.chars \in NamesOf(file)
        => /\ res.status = 200
           /\ res.body.name = res.name.chars

\* C17: a GET of the detail endpoint whose name is missing, empty or not a
\* single string is answered 400 with the error body, and handling it leaves
\* the engine instance, the table and the flag as they were: no lookup ran.
C17_NameRequired ==
    [][(/\ res'.op = "detail"
        /\ res'.method = "GET"
        /\ (res'.name.kind # "string" \/ res'.name.chars = <<>>))
          => /\ res'.status = 400
             /\ res'.body = [error |-> "Company name is required"]
             /\ UNCHANGED <<table, instance, tableInitialized>>]_vars

\* C17 witness: a GET whose name is a list of two names of the dataset,
\* answered 400 while the engine has never been used.
C17_Witness ==
    /\ res.op = "detail"
    /\ res.method = "GET"
    /\ res.status = 400
    /\ res.name.kind = "array"
    /\ \A i \in DOMAIN res.name.items : res.name.items[i] \in NamesOf(file)
    /\ instance = "null"
    /\ ~tableInitialized
    /\ ~table.exists

\* the result a handler got from the data layer does not have the shape of
\* the handler's schema: a name, country or commodity field holds no text
ShapeViolated(r) ==
    IF r.op = "companies"
    THEN \E i \in DOMAIN r.result.data : r.result.data[i].country = Null
    ELSE IF r.op = "stats"
    THEN \E i \in DOMAIN r.result.topCommodities :
            r.result.topCommodities[i].commodity = Null
    ELSE IF r.op = "detail"
    THEN \/ \E i \in DOMAIN r.result.topTradingPartners :
               r.result.topTradingPartners[i].country = Null
         \/ \E i \in DOMAIN r.result.topCommodities :
               r.result.topCommodities[i].name = Null
    ELSE FALSE

FixedMessages ==
    {"Invalid response data", "Company name is required", "Company not found",
     "Failed to fetch companies", "Failed to fetch company stats",
     "Failed to fetch company detail", "Failed to fetch shipments"}

\* C18: in every handler a GET ends in one response.  A result that fails the
\* handler's schema is answered 400 "Invalid response data" (the shipments
\* handler validates nothing, so it has no such failure); every other
\* exception is answered 500 with the handler's own message; the error body
\* is one of the fixed messages and not the text of the exception.
C18_ErrorResponses ==
    res.op \in Endpoints /\ res.method = "GET" =>
        /\ res.status \in {200, 400, 404, 500}
        /\ res.logged.name = "ZodError" =>
              /\ res.status = 400
              /\ res.body = [error |-> "Invalid response data"]
        /\ res.logged.name \notin {"none", "ZodError"} =>
              /\ res.status = 500
              /\ res.body = [error |-> FailureMessage(res.op)]
        /\ res.status = 500 => res.logged.name \notin {"none", "ZodError"}
        /\ res.status # 200 =>
              /\ DOMAIN res.body = {"error"}
              /\ res.body.error \in FixedMessages
              /\ res.body.error # res.logged.message
        /\ "result" \in DOMAIN res /\ res.op # "shipments" =>
              (ShapeViolated(res) <=> res.status = 400 /\ res.logged.name = "ZodError")

\* C18 witness: a detail whose list of partners holds a partner without
\* country, answered 400 "Invalid response data".
C18_Witness ==
    /\ res.op = "detail"
    /\ res.method = "GET"
    /\ res.status = 400
    /\ res.logged = ZodError
    /\ \E i \in DOMAIN res.result.topTradingPartners :
          res.result.topTradingPartners[i].country = Null
    /\ res.body = [error |-> "Invalid response data"]

\* v is a number, not text
IsNumber(v) == \E n \in 0 .. 2 * (Len(Pool) + Len(HandlerPool)) : ToString(v) = ToString(n)

\* C19 as stated: every 200 body of the four endpoints has passed the
\* endpoint's schema, so its counts (total, totalImporters, totalExporters)
\* are numbers and not text.
C19_AsStated ==
    res.op \in Endpoints /\ res.method = "GET" /\ res.status = 200 =>
        /\ res.op \in {"companies", "shipments"} => IsNumber(res.body.total)
        /\ res.op = "stats" =>
              IsNumber(res.body.totalImporters) /\ IsNumber(res.body.totalExporters)
        /\ ~ShapeViolated(res)

\* the lower-case form of a text
ToLower(s) ==
    [i \in DOMAIN s |-> IF s[i] = "A" THEN "a" ELSE IF s[i] = "B" THEN "b" ELSE s[i]]

\* text s holds text sub
Contains(s, sub) ==
    \E i \in 0 .. Len(s) : i + Len(sub) <= Len(s) /\ SubSeq(s, i + 1, i + Len(sub)) = sub

\* C20 as stated: a GET of /api/companies with a search string returns only
\* companies whose name holds the search string, letter case aside, and total
\* is the number of those companies.
C20_AsStated ==
    (/\ res.op = "companies"
     /\ res.method = "GET"
     /\ res.status = 200
     /\ "search" \in DOMAIN res
     /\ res.search.kind = "string")
    => /\ \A i \in DOMAIN res.body.data :
             Contains(ToLower(res.body.data[i].name), ToLower(res.search.chars))
       /\ res.body.total
             = Cardinality({k \in Pairs(file) :
                               Contains(ToLower(k.name), ToLower(res.search.chars))})

\* the number of quote characters of a text
CountQuotes(s) == Cardinality({i \in DOMAIN s : s[i] = "'"})

\* C23: for every name getCompanyDetail is called with, the text embedded in
\* its statements is the name with each quote doubled, the engine reads it
\* between the template's quotes as one string literal whose value is the
\* name itself, with nothing of the name left over as statement text; the
\* call raises nothing, leaves the table as loaded and finds a company
\* exactly when a shipment carries that very name.
C23_OneLiteral ==
    res.op = "getCompanyDetail" =>
        LET escapedName == EscapeQuotes(res.name)
            lit == EmbeddedLiteral(escapedName)
        IN  /\ Len(escapedName) = Len(res.name) + CountQuotes(res.name)
            /\ CountQuotes(escapedName) = 2 * CountQuotes(res.name)
            /\ OneLiteral(lit)
            /\ lit.value = res.name
            /\ res.out.kind # "throws"
            /\ ~res.out.dropped
            /\ table = [exists |-> TRUE, rows |-> file]
            /\ res.out.kind = "detail" <=> res.name \in NamesOf(file)

\* C23 witness: the company whose name ends in a quote is found under that
\* name, and the record carries the name as supplied.
C23_Witness ==
    /\ res.op = "getCompanyDetail"
    /\ res.name = <<"a", "'">>
    /\ res.out.kind = "detail"
    /\ res.out.detail.name = <<"a", "'">>
    /\ res.out.detail.totalShipments >= 1

\* the shipments that carry name n as importer, as exporter
ImportsOf(t, n) == {r \in t : r.importer_name = n}
ExportsOf(t, n) == {r \in t : r.exporter_name = n}

\* C25: for every name that a shipment carries, getCompanyDetail returns a
\* record whose totalShipments is the number of shipments with that
\* importer_name plus the number with that exporter_name, whatever their
\* countries and websites; whose country is a country the name occurs under;
\* and whose website is one of the name's websites whenever a matching row of
\* either role has one.
C25_DetailTotals ==
    res.op = "getCompanyDetail" /\ res.name \in NamesOf(file) =>
        LET imp == ImportsOf(file, res.name)
            exp == ExportsOf(file, res.name)
            countries == {r.importer_country : r \in imp} \cup {r.exporter_country : r \in exp}
            websites == ({r.importer_website : r \in imp} \cup {r.exporter_website : r \in exp})
                        \ {NoWebsite}
        IN  /\ res.out.kind = "detail"
            /\ res.out.detail.totalShipments = Cardinality(imp) + Cardinality(exp)
            /\ res.out.detail.country \in countries
            /\ websites # {} => res.out.detail.website \in websites
            /\ websites = {} => res.out.detail.website = NoWebsite

\* C25 witness: a record for a name that occurs under two countries, in both
\* roles, with a website on some of its rows and none on others.
C25_Witness ==
    /\ res.op = "getCompanyDetail"
    /\ res.out.kind = "detail"
    /\ res.out.detail.website # NoWebsite
    /\ ImportsOf(file, res.name) # {}
    /\ ExportsOf(file, res.name) # {}
    /\ \E r, q \in ImportsOf(file, res.name) :
          r.importer_country # q.importer_country
    /\ \E r \in ImportsOf(file, res.name) : r.importer_website = NoWebsite
    /\ res.out.detail.totalShipments >= 4

\* the (name, country) pairs name n trades with, in either direction
PartnersOf(t, n) ==
    {Key(r.exporter_name, r.exporter_country) : r \in ImportsOf(t, n)}
    \cup {Key(r.importer_name, r.importer_country) : r \in ExportsOf(t, n)}

\* shipments in which n is importer and k exporter, plus those in which n is
\* exporter and k importer
PartnerShipments(t, n, k) ==
    Cardinality({r \in ImportsOf(t, n) :
                    r.exporter_name = k.name /\ r.exporter_country = k.country})
    + Cardinality({r \in ExportsOf(t, n) :
                    r.importer_name = k.name /\ r.importer_country = k.country})

\* C26: every trading partner getCompanyDetail returns is a (name, country)
\* pair the company trades with, listed once, with shipments = shipments the
\* company imports from it + shipments the company exports to it; the list
\* holds 5 partners or all of them, and no partner left out has more
\* shipments than a partner listed.
C26_Partners ==
    res.op = "getCompanyDetail" /\ res.out.kind = "detail" =>
        LET list == res.out.detail.topTradingPartners
            listed == {Key(list[i].name, list[i].country) : i \in DOMAIN list}
            all == PartnersOf(file, res.name)
        IN  /\ listed \subseteq all
            /\ Cardinality(listed) = Len(list)
            /\ Len(list) = Min(TOP_LIMIT, Cardinality(all))
            /\ \A i \in DOMAIN list :
                  list[i].shipments
                      = PartnerShipments(file, res.name, Key(list[i].name, list[i].country))
            /\ \A k \in all \ listed : \A i \in DOMAIN list :
                  PartnerShipments(file, res.name, k) <= list[i].shipments

\* C26 witness: a record whose company has more than 5 partners, one of them
\* a partner it both imports from and exports to, listed with both counts
\* added up.
C26_Witness ==
    /\ res.op = "getCompanyDetail"
    /\ res.out.kind = "detail"
    /\ Cardinality(PartnersOf(file, res.name)) > 5
    /\ \E i \in DOMAIN res.out.detail.topTradingPartners :
          LET p == res.out.detail.topTradingPartners[i]
              k == Key(p.name, p.country)
          IN  /\ p.name # res.name
              /\ p.shipments >= 2
              /\ \E r \in ImportsOf(file, res.name) :
                    r.exporter_name = k.name /\ r.exporter_country = k.country
              /\ \E r \in ExportsOf(file, res.name) :
                    r.importer_name = k.name /\ r.importer_country = k.country


\* a row's weight converted to integer kilograms on its own
RowKg(r) == CastInteger(Kg1000(r))

\* the sum of the rows' integer kilograms
SumRowKg(rows) == SumOver(rows, [r \in rows |-> RowKg(r)])

\* C27: every kilogram aggregate is the sum, over the rows of its group, of
\* each row's weight converted to integer kilograms: the totalWeight of a
\* company of the list and of the detail record, the kg of a commodity in the
\* stats and in the detail record, the kg of a month.
C27_AsStated ==
    /\ res.op = "transformShipmentsToCompanies" =>
          \A i \in DOMAIN res.data :
             res.data[i].totalWeight
                = SumRowKg({r \in file : r.importer_name = res.data[i].name
                                         /\ r.importer_country = res.data[i].country})
                  + SumRowKg({r \in file : r.exporter_name = res.data[i].name
                                           /\ r.exporter_country = res.data[i].country})
    /\ res.op = "getCompanyStats" =>
          /\ \A i \in DOMAIN res.stats.topCommodities :
                res.stats.topCommodities[i].kg
                   = SumRowKg({r \in file :
                                 r.commodity_name = res.stats.topCommodities[i].commodity})
          /\ \A i \in DOMAIN res.stats.monthlyVolume :
                res.stats.monthlyVolume[i].kg
                   = SumRowKg({r \in file : StrftimeMonYear(r.shipment_date)
                                              = res.stats.monthlyVolume[i].month})
    /\ res.op = "getCompanyDetail" /\ res.out.kind = "detail" =>
          /\ res.out.detail.totalWeight
                = SumRowKg(ImportsOf(file, res.name)) + SumRowKg(ExportsOf(file, res.name))
          /\ \A i \in DOMAIN res.out.detail.topCommodities :
                res.out.detail.topCommodities[i].kg
                   = SumRowKg({r \in ImportsOf(file, res.name) \cup ExportsOf(file, res.name) :
                                 r.commodity_name = res.out.detail.topCommodities[i].name})


\* C28: the record getCompanyDetail returns for a name carries the country,
\* the totalShipments and the totalWeight of every row the company list has
\* under that name.
C28_AsStated ==
    res.op = "getCompanyDetail" /\ res.out.kind = "detail" =>
        \A row \in CompanyRows(file) :
           row.name = res.name =>
              /\ res.out.detail.country = row.country
              /\ res.out.detail.totalShipments = row.totalShipments
              /\ res.out.detail.totalWeight = row.totalWeight


\* C30: when the company of a detail record trades at most 5 distinct
\* commodities, the kg of its topCommodities add up to its totalWeight.
C30_AsStated ==
    res.op = "getCompanyDetail" /\ res.out.kind = "detail" =>
        LET traded == {r.commodity_name :
                          r \in ImportsOf(file, res.name) \cup ExportsOf(file, res.name)}
            top == res.out.detail.topCommodities
        IN  Cardinality(traded) <= TOP_LIMIT =>
               SumOver(DOMAIN top, [i \in DOMAIN top |-> top[i].kg])
                  = res.out.detail.totalWeight


\* the (name, country) pairs on a served page of the company list
PagePairs(r) ==
    {Key(r.result.data[i].name, r.result.data[i].country) : i \in DOMAIN r.result.data}

\* C29: when the listing has at most 2L companies, the pages asked for with
\* limit L at offsets 0 and L hold every (name, country) pair of the listing,
\* each on one page and once.
C29_AsStated ==
    \A L \in 1 .. 3 :
        /\ IsPage(previous, L, 0)
        /\ IsPage(res, L, L)
        /\ Cardinality(Pairs(file)) <= 2 * L
        => /\ PagePairs(previous) \cup PagePairs(res) = Pairs(file)
           /\ PagePairs(previous) \cap PagePairs(res) = {}
           /\ Len(previous.result.data) + Len(res.result.data) = Cardinality(Pairs(file))


\* the table loads carried out so far, over every instance created
TotalLoads == SumOver(DOMAIN engine, [k \in DOMAIN engine |-> engine[k].loads])

\* C21: however the first calls interleave, no more than one engine instance
\* is created and the shipments table is loaded no more than once.
C21_AsStated ==
    /\ Len(engine) <= 1
    /\ TotalLoads <= 1

\* C22: a call that has ended, with rows or with an error, has closed every
\* connection it opened; once all calls have ended no instance has an open
\* connection.
C22_AsStated ==
    /\ \A i \in DOMAIN calls : calls[i].pc = "done" => ~calls[i].connection
    /\ (\A i \in DOMAIN calls : calls[i].pc = "done")
          => \A k \in DOMAIN engine : engine[k].open = 0

\* C24: whenever tableInitialized is true the instance the module holds has
\* the shipments table; the statement of query runs on an instance that has
\* it; and no call ends with the engine's error for a missing table, which a
\* call running alone never gets.
C24_AsStated ==
    /\ tableInitialized => TableSeen(engine, instance).exists
    /\ \A i \in DOMAIN calls :
          /\ calls[i].pc = "query.run"
                => engine[Ix(engine, calls[i].db)].table.exists
          /\ calls[i].out # [kind |-> "error", from |-> "catalog"]

====
